---- MODULE Spec2Model ----
(***************************************************************************)
(* Model of the credential-derived encryption and encrypted local storage  *)
(* of gemini-ai-foundry: cryptoService (setup / login / logout / reset,    *)
(* encrypt / decrypt, backup codec) and dbService (IndexedDB partitions).  *)
(*                                                                         *)
(* Cryptographic primitives are modelled symbolically: a derived key is    *)
(* the pair it is derived from, an AES-GCM ciphertext opens only under the *)
(* key and IV that produced it, an ECDSA signature verifies only under the *)
(* public half of the pair that signed exactly that ciphertext.            *)
(*                                                                         *)
(* Every async function is cut at the awaits that separate its reads and   *)
(* writes of shared state; a call in flight lives in a slot of `calls`.    *)
(***************************************************************************)
EXTENDS Integers, Sequences, FiniteSets, TLC

\* ---------------------------------------------------------------- bounds
MaxSetups == 2      \* setup() calls that draw fresh randomness in one run
MaxCalls == 2       \* async calls that may be in flight at the same time

\* ---------------------------------------------------------------- inputs
Passwords == {"longpassword1", "wrongpass", "short"}
MinPasswordLength == 8
Calls == 1..MaxCalls

VARIABLES
    authMetadata,       \* localStorage[AUTH_METADATA_KEY]: Null or <<metadata>>
    dataEncryptionKey,  \* module variable: Null or <<key>>
    signingKeyPair,     \* module variable: Null or <<pair>>
    calls,              \* async calls in flight, one record per slot
    last,               \* outcome of the call that settled most recently
    rnd,                \* draws made from the random source by setup()
    files,              \* object store 'files': name -> Null or <<record>>
    chatHistory,        \* object store 'chatHistory': Null or <<record>>
    settings,           \* object store 'app_settings': id -> Null or <<record>>
    dbInstance,         \* module variable: Null or <<connection handle>>
    deletePending,      \* a deleteDatabase request blocked by an open connection
    connections,        \* connections to the database this page has opened
    backupFile,         \* the backup file the user holds: Null or <<bundle>>
    scenario,           \* the client running the end-to-end scenario
    held                \* what a direct caller of the codec holds: Null or <<item>>

authVars == <<authMetadata, dataEncryptionKey, signingKeyPair>>
storeVars == <<files, chatHistory, settings>>
dbVars == <<dbInstance, deletePending, connections>>
userVars == <<backupFile, scenario, held>>
vars == <<authMetadata, dataEncryptionKey, signingKeyPair, calls, last, rnd,
          files, chatHistory, settings, dbInstance, deletePending, connections,
          backupFile, scenario, held>>

Null == <<>>
Some(x) == <<x>>
Val(o) == o[1]

\* ------------------------------------------------------- crypto primitives
\* utils/helpers encode / decode: base64 text of a byte string and back.
encode(bytes) == <<"base64", bytes>>
decode(text) == text[2]

\* JSON.stringify / JSON.parse of a serialisable value.
stringify(value) == <<"json", value>>
parse(text) == text[2]

\* A random source that repeats its first draw.
getRandomValues_Repeating(n) == 0

\* crypto.getRandomValues / generateKey: the n-th draw of the random source.
getRandomValues(n) == n

\* A key derivation that does not depend on the password.
deriveKey_IgnoresPassword(password, salt, usage) == [password |-> "", salt |-> salt]

\* PBKDF2(password, salt, 250000, SHA-256) -> AES-GCM 256 key.  The key usages
\* passed by the caller restrict the CryptoKey object, not its key material.
deriveKey(password, salt, usage) == [password |-> password, salt |-> salt]

AesGcmEncrypt(key, iv, plaintext) ==
    [key |-> key, iv |-> iv, plaintext |-> plaintext, intact |-> TRUE]
AesGcmOpens(key, iv, ciphertext) ==
    /\ ciphertext.intact
    /\ ciphertext.key = key
    /\ ciphertext.iv = iv

generateKey(n) == [privateKey |-> n, publicKey |-> n]
\* importKey('jwk', ...) rejects key material that is not a point of P-256.
ImportableKey(jwk) == jwk >= 0
\* Bytes that are neither a key nor a salt the program ever produced.
Garbage == 0 - 1

\* ------------------------------------------------------------- call slots
Idle == [op |-> "idle", pc |-> "idle", password |-> "", meta |-> Null,
         arg |-> Null, snap |-> Null, db |-> Null]
NoCallInFlight == \A c \in Calls : calls[c] = Idle

Outcome(op, result, password, value) ==
    [op |-> op, result |-> result, password |-> password, value |-> value]

Settle(c, op, result) ==
    /\ calls' = [calls EXCEPT ![c] = Idle]
    /\ last' = Outcome(op, result, calls[c].password, Null)

\* ------------------------------------------------------------ cryptoService
\* An isSetup that never sees the stored metadata.
isSetup_Never == FALSE

\* isSetup, lines 374-376.
isSetup == authMetadata # Null

\* setup, lines 383-414: the AuthMetadata built from the n-th random draw.
NewMetadata(password, n) ==
    LET salt == getRandomValues(n)
        signingKeyIv == getRandomValues(n)
        keyEncryptionKey == deriveKey(password, salt, {"encrypt", "decrypt"})
        newSigningKeyPair == generateKey(getRandomValues(n))
    IN  [salt |-> encode(salt),
         signingKeyIv |-> encode(signingKeyIv),
         encryptedSigningKey |->
             encode(AesGcmEncrypt(keyEncryptionKey, signingKeyIv,
                                  stringify(newSigningKeyPair.privateKey))),
         publicSignKey |-> newSigningKeyPair.publicKey,
         wellFormed |-> TRUE]

\* login, lines 429-450: does the loaded metadata unwrap under the password?
Unwraps(metadata, password) ==
    /\ metadata.wellFormed
    /\ AesGcmOpens(deriveKey(password, decode(metadata.salt), {"decrypt"}),
                   decode(metadata.signingKeyIv),
                   decode(metadata.encryptedSigningKey))
    /\ ImportableKey(parse(decode(metadata.encryptedSigningKey).plaintext))
    /\ ImportableKey(metadata.publicSignKey)

\* A logout that also forgets the stored metadata.
logout_ForgetsMetadata ==
    /\ dataEncryptionKey' = Null
    /\ signingKeyPair' = Null
    /\ authMetadata' = Null
    /\ last' = Outcome("logout", "returned", "", Null)
    /\ UNCHANGED <<calls, rnd, storeVars, dbVars, userVars>>

\* logout, lines 465-468.
ClearSession ==
    /\ dataEncryptionKey' = Null
    /\ signingKeyPair' = Null

logout ==
    /\ ClearSession
    /\ last' = Outcome("logout", "returned", "", Null)
    /\ UNCHANGED <<authMetadata, calls, rnd, storeVars, dbVars, userVars>>

\* login, lines 422-429: the synchronous prefix.  Without metadata the call
\* returns false at once and touches nothing; metadata that JSON.parse rejects
\* throws inside the try, and the catch block (lines 458-462) runs at once.
login(c, password) ==
    /\ calls[c] = Idle
    /\ IF authMetadata = Null
       THEN /\ last' = Outcome("login", "false", password, Null)
            /\ UNCHANGED <<calls, dataEncryptionKey, signingKeyPair>>
       ELSE IF ~Val(authMetadata).wellFormed
       THEN /\ ClearSession
            /\ last' = Outcome("login", "false", password, Null)
            /\ UNCHANGED calls
       ELSE /\ calls' = [calls EXCEPT ![c] =
                   [Idle EXCEPT !.op = "login", !.pc = "unwrap",
                                !.password = password, !.meta = authMetadata]]
            /\ UNCHANGED <<last, dataEncryptionKey, signingKeyPair>>
    /\ UNCHANGED <<authMetadata, rnd, storeVars, dbVars, userVars>>

\* A catch block that returns false without calling logout().
LoginFailure_KeepsSession(c) ==
    /\ UNCHANGED <<dataEncryptionKey, signingKeyPair>>
    /\ Settle(c, calls[c].op, IF calls[c].op = "login" THEN "false" ELSE "resolved")

\* login, lines 458-462: the catch block.
LoginFailure(c) ==
    /\ ClearSession
    /\ Settle(c, calls[c].op, IF calls[c].op = "login" THEN "false" ELSE "resolved")

\* login, lines 428-452: parse, derive, unwrap, import; on success the signing
\* pair is assigned and the call awaits the second derivation.
LoginUnwrap(c) ==
    /\ calls[c].pc = "unwrap"
    /\ LET metadata == Val(calls[c].meta) IN
       IF Unwraps(metadata, calls[c].password)
       THEN /\ signingKeyPair' =
                   Some([privateKey |->
                             parse(decode(metadata.encryptedSigningKey).plaintext),
                         publicKey |-> metadata.publicSignKey])
            /\ calls' = [calls EXCEPT ![c].pc = "derive"]
            /\ UNCHANGED <<dataEncryptionKey, last>>
       ELSE LoginFailure(c)
    /\ UNCHANGED <<authMetadata, rnd, storeVars, dbVars, userVars>>

\* login, lines 455-457: the data key is assigned and the call returns true.
LoginDerive(c) ==
    /\ calls[c].pc = "derive"
    /\ dataEncryptionKey' =
           Some(deriveKey(calls[c].password, decode(Val(calls[c].meta).salt),
                          {"encrypt", "decrypt"}))
    /\ Settle(c, calls[c].op, IF calls[c].op = "login" THEN "true" ELSE "resolved")
    /\ UNCHANGED <<authMetadata, signingKeyPair, rnd, storeVars, dbVars, userVars>>

\* setup, lines 378-384: the guard and the random draws, before the first await.
setup(c, password) ==
    /\ calls[c] = Idle
    /\ IF isSetup
       THEN /\ last' = Outcome("setup", "threw", password, Null)
            /\ UNCHANGED <<calls, rnd>>
       ELSE /\ rnd < MaxSetups
            /\ calls' = [calls EXCEPT ![c] =
                   [Idle EXCEPT !.op = "setup", !.pc = "persist",
                                !.password = password,
                                !.meta = Some(NewMetadata(password, rnd))]]
            /\ rnd' = rnd + 1
            /\ last' = last
    /\ UNCHANGED <<authVars, storeVars, dbVars, userVars>>

\* setup, lines 416-419: setItem, then login(password), whose synchronous
\* prefix reads back the item just written.
SetupPersist(c) ==
    /\ calls[c].pc = "persist"
    /\ authMetadata' = calls[c].meta
    /\ calls' = [calls EXCEPT ![c].pc = "unwrap"]
    /\ UNCHANGED <<dataEncryptionKey, signingKeyPair, last, rnd, storeVars,
                   dbVars, userVars>>

\* reset, lines 577-581.  deleteDatabase cannot run while a connection to the
\* database is open: no handler closes dbInstance on versionchange, so the
\* request stays blocked until the page (and with it the connection) goes away.
deleteDatabase ==
    IF connections = 0 /\ \A c \in Calls : calls[c].pc # "opening"
    THEN /\ files' = [n \in DOMAIN files |-> Null]
         /\ chatHistory' = Null
         /\ settings' = [k \in DOMAIN settings |-> Null]
         /\ UNCHANGED deletePending
    ELSE /\ deletePending' = TRUE
         /\ UNCHANGED storeVars

reset ==
    /\ ClearSession
    /\ authMetadata' = Null
    /\ deleteDatabase
    /\ last' = Outcome("reset", "returned", "", Null)
    /\ UNCHANGED <<calls, rnd, dbInstance, connections, userVars>>

\* window.location.reload() (Auth.handleReset line 86, Settings line 684) or a
\* restart of the page: module state is lost, persisted state stays, and a
\* blocked deleteDatabase request now runs.
Reload ==
    /\ dataEncryptionKey' = Null
    /\ signingKeyPair' = Null
    /\ calls' = [c \in Calls |-> Idle]
    /\ dbInstance' = Null
    /\ connections' = 0
    /\ deletePending' = FALSE
    /\ IF deletePending
       THEN /\ files' = [n \in DOMAIN files |-> Null]
            /\ chatHistory' = Null
            /\ settings' = [k \in DOMAIN settings |-> Null]
       ELSE UNCHANGED storeVars
    /\ last' = Outcome("reload", "returned", "", Null)
    /\ UNCHANGED <<authMetadata, rnd, userVars>>


\* ---------------------------------------------------------------- payloads
FileNames == {"a.txt", "b.txt"}
NameOrder == <<"a.txt", "b.txt">>       \* getAll() returns records in key order
Contents == {"c1", "c2"}
StoredFiles == [name : FileNames, data : Contents]
FileBatches ==
    {<<f>> : f \in StoredFiles} \cup
    {<<f, g>> : f \in {x \in StoredFiles : x.name = "a.txt"},
                g \in {x \in StoredFiles : x.name = "b.txt"}}
ChatHistories == {<<>>, <<"hi">>}
PersonaSets == {<<>>, <<"persona1">>}
VoiceNames == {"", "Puck"}
PERSONAS_KEY == "chatbot_personas"
VOICE_PREF_KEY == "voice_preference"
DB_NAME == "GeminiAIStudioDB"

\* --------------------------------------------------- encrypt / decrypt
\* A check that looks at the data key alone.
Authenticated_DataKeyOnly == dataEncryptionKey # Null

\* encrypt line 471, decrypt line 500: both keys must be there.
Authenticated == dataEncryptionKey # Null /\ signingKeyPair # Null

\* A signature taken over the plaintext instead of the ciphertext.
Sign_OverPlaintext(privateKey, ciphertext) ==
    [signer |-> privateKey, over |-> ciphertext.plaintext, intact |-> TRUE]

\* A verification that checks who signed, not what was signed.
Verify_SignerOnly(publicKey, signature, ciphertext) ==
    signature.signer = publicKey

Sign(privateKey, ciphertext) ==
    [signer |-> privateKey, over |-> ciphertext, intact |-> TRUE]
Verify(publicKey, signature, ciphertext) ==
    /\ signature.intact
    /\ signature.signer = publicKey
    /\ signature.over = ciphertext

\* encrypt, lines 475-496 (the caller has checked Authenticated, line 471).
encrypt(data) ==
    LET iv == getRandomValues(0)
        encryptedContent == AesGcmEncrypt(Val(dataEncryptionKey), iv, stringify(data))
        signature == Sign(Val(signingKeyPair).privateKey, encryptedContent)
    IN  stringify([iv |-> encode(iv),
                   ciphertext |-> encode(encryptedContent),
                   signature |-> encode(signature)])

Failed(error) == [ok |-> FALSE, error |-> error, value |-> Null]

\* decrypt, lines 499-535: the signature is verified before the AES-GCM open.
decrypt(encryptedPayloadJSON) ==
    IF ~Authenticated THEN Failed("NotAuthenticated")
    ELSE LET payload == parse(encryptedPayloadJSON)
             iv == decode(payload.iv)
             ciphertext == decode(payload.ciphertext)
             signature == decode(payload.signature)
         IN  IF ~Verify(Val(signingKeyPair).publicKey, signature, ciphertext)
             THEN Failed("IntegrityError")
             ELSE IF ~AesGcmOpens(Val(dataEncryptionKey), iv, ciphertext)
             THEN Failed("DecryptionError")
             ELSE [ok |-> TRUE, error |-> "",
                   value |-> Some(parse(ciphertext.plaintext))]

\* encryptBackup, lines 537-555.
encryptBackup(data, password) ==
    LET salt == getRandomValues(0)
        iv == getRandomValues(0)
        backupEncryptionKey == deriveKey(password, salt, {"encrypt"})
    IN  stringify([salt |-> encode(salt), iv |-> encode(iv),
                   encryptedData |->
                       encode(AesGcmEncrypt(backupEncryptionKey, iv, stringify(data)))])

\* decryptBackup, lines 557-575.
decryptBackup(encryptedBackupJSON, password) ==
    LET payload == parse(encryptedBackupJSON)
        salt == decode(payload.salt)
        iv == decode(payload.iv)
        encryptedData == decode(payload.encryptedData)
        backupEncryptionKey == deriveKey(password, salt, {"decrypt"})
    IN  IF AesGcmOpens(backupEncryptionKey, iv, encryptedData)
        THEN [ok |-> TRUE, error |-> "", value |-> Some(parse(encryptedData.plaintext))]
        ELSE Failed("DecryptionError")

\* ------------------------------------------------------------- dbService
\* A read that gives up on the first record that fails.
ReadableNames_AbortOnFailure ==
    IF \A n \in FileNames :
          files[n] # Null => decrypt(Val(files[n]).encryptedPayload).ok
    THEN SelectSeq(NameOrder, LAMBDA n : files[n] # Null)
    ELSE <<>>

\* Reads: each record is decrypted in a try / catch of its own.
ReadableNames ==
    SelectSeq(NameOrder,
              LAMBDA n : files[n] # Null /\ decrypt(Val(files[n]).encryptedPayload).ok)

\* getDocuments, lines 320-341.
DecryptedFiles ==
    [i \in 1..Len(ReadableNames) |->
        Val(decrypt(Val(files[ReadableNames[i]]).encryptedPayload).value)]

\* getChatHistory, lines 378-399, and getPersonas, lines 424-445: [] when the
\* record is absent or does not decrypt.
DecryptedOrEmpty(record) ==
    IF record # Null /\ decrypt(Val(record).encryptedPayload).ok
    THEN Val(decrypt(Val(record).encryptedPayload).value)
    ELSE <<>>

\* getVoicePreference, lines 459-480: null when absent or undecryptable.
DecryptedOrNull(record) ==
    IF record # Null /\ decrypt(Val(record).encryptedPayload).ok
    THEN decrypt(Val(record).encryptedPayload).value
    ELSE Null

\* getAllDataForBackup, lines 496-504.
AllDataForBackup ==
    [files |-> DecryptedFiles,
     chatHistory |-> DecryptedOrEmpty(chatHistory),
     personas |-> DecryptedOrEmpty(settings[PERSONAS_KEY]),
     voicePreference |-> DecryptedOrNull(settings[VOICE_PREF_KEY])]


\* Every dbService function starts with `await openDB()`, lines 267-297: the
\* cached dbInstance is returned at once, otherwise an open request is made.
StartDbCall(c, op, arg, snap) ==
    /\ calls[c] = Idle
    /\ calls' = [calls EXCEPT ![c] =
           [Idle EXCEPT !.op = op, !.arg = arg, !.snap = snap, !.db = dbInstance,
                        !.pc = IF dbInstance = Null THEN "opening" ELSE "ready"]]
    /\ UNCHANGED <<authVars, last, rnd, storeVars, dbVars, userVars>>

\* The connection the n-th successful open request of this page yields.
Connection(n) == [name |-> DB_NAME, id |-> n]

\* openDB, request.onsuccess, lines 279-282: the request the call made at line
\* 272 yields a connection of its own, which is cached and handed to the caller.
openDBSuccess(c) ==
    /\ calls[c].pc = "opening"
    /\ connections' = connections + 1
    /\ dbInstance' = Some(Connection(connections + 1))
    /\ calls' = [calls EXCEPT ![c].pc = "ready",
                              ![c].db = Some(Connection(connections + 1))]
    /\ UNCHANGED <<authVars, last, rnd, storeVars, deletePending, userVars>>

addDocuments(c, batch) == StartDbCall(c, "addDocuments", batch, Null)
saveChatHistory(c, messages) == StartDbCall(c, "saveChatHistory", Some(messages), Null)
savePersonas(c, personas) == StartDbCall(c, "savePersonas", Some(personas), Null)
saveVoicePreference(c, voiceName) ==
    StartDbCall(c, "saveVoicePreference", Some(voiceName), Null)
getDocuments(c) == StartDbCall(c, "getDocuments", Null, Null)
getChatHistory(c) == StartDbCall(c, "getChatHistory", Null, Null)
getPersonas(c) == StartDbCall(c, "getPersonas", Null, Null)
getVoicePreference(c) == StartDbCall(c, "getVoicePreference", Null, Null)

\* A write opens its transaction and then awaits cryptoService.encrypt before
\* the put.  A transaction with no pending request is deactivated when control
\* returns to the event loop, so the put is accepted only if the encryption
\* settled within the task that opened the transaction; otherwise put throws
\* TransactionInactiveError.  Which of the two happens is the platform's.
PutAccepted == BOOLEAN

\* A record that carries the file as it is.
FileRecord_Plaintext(file) == [name |-> file.name, encryptedPayload |-> stringify(file)]

FileRecord(file) == [name |-> file.name, encryptedPayload |-> encrypt(file)]
KeyedRecord(id, value) == [id |-> id, encryptedPayload |-> encrypt(value)]

\* addDocuments, lines 309-317: one turn of the loop; the promise resolves
\* with the transaction once the last put is queued.
addDocumentsPut(c) ==
    /\ calls[c].op = "addDocuments"
    /\ calls[c].pc \in {"ready", "active"}
    /\ LET file == Head(calls[c].arg) IN
       IF ~Authenticated
       THEN /\ Settle(c, "addDocuments", "NotAuthenticated")
            /\ UNCHANGED files
       ELSE \E accepted \in PutAccepted :
              IF accepted
              THEN /\ files' = [files EXCEPT ![file.name] = Some(FileRecord(file))]
                   /\ IF Len(calls[c].arg) = 1
                      THEN Settle(c, "addDocuments", "resolved")
                      ELSE /\ calls' = [calls EXCEPT ![c].arg = Tail(@),
                                                     ![c].pc = "active"]
                           /\ UNCHANGED last
              ELSE /\ Settle(c, "addDocuments", "TransactionInactiveError")
                   /\ UNCHANGED files
    /\ UNCHANGED <<authVars, rnd, chatHistory, settings, dbVars, userVars>>

\* The stores as they are after put(value) under the key a save function uses:
\* saveChatHistory 366-376, savePersonas 412-422, saveVoicePreference 447-457.
PutKeyed(op, value) ==
    /\ chatHistory' = IF op = "saveChatHistory"
                      THEN Some(KeyedRecord("current_chat", value)) ELSE chatHistory
    /\ settings' = IF op = "savePersonas"
                   THEN [settings EXCEPT ![PERSONAS_KEY] =
                            Some(KeyedRecord(PERSONAS_KEY, value))]
                   ELSE IF op = "saveVoicePreference"
                   THEN [settings EXCEPT ![VOICE_PREF_KEY] =
                            Some(KeyedRecord(VOICE_PREF_KEY, value))]
                   ELSE settings

savePut(c) ==
    /\ calls[c].op \in {"saveChatHistory", "savePersonas", "saveVoicePreference"}
    /\ calls[c].pc = "ready"
    /\ IF ~Authenticated
       THEN /\ Settle(c, calls[c].op, "NotAuthenticated")
            /\ UNCHANGED <<chatHistory, settings>>
       ELSE \E accepted \in PutAccepted :
              IF accepted
              THEN /\ PutKeyed(calls[c].op, Val(calls[c].arg))
                   /\ Settle(c, calls[c].op, "resolved")
              ELSE /\ Settle(c, calls[c].op, "TransactionInactiveError")
                   /\ UNCHANGED <<chatHistory, settings>>
    /\ UNCHANGED <<authVars, rnd, files, dbVars, userVars>>

updateDocument(c, file) == StartDbCall(c, "updateDocument", Some(file), Null)
removeDocument(c, fileName) == StartDbCall(c, "removeDocument", Some(fileName), Null)
clearChatHistory(c) == StartDbCall(c, "clearChatHistory", Null, Null)

\* updateDocument, lines 358-363: like the saves, the put follows the awaited
\* encryption.
updateDocumentPut(c) ==
    /\ calls[c].op = "updateDocument"
    /\ calls[c].pc = "ready"
    /\ LET file == Val(calls[c].arg) IN
       IF ~Authenticated
       THEN /\ Settle(c, "updateDocument", "NotAuthenticated")
            /\ UNCHANGED files
       ELSE \E accepted \in PutAccepted :
              IF accepted
              THEN /\ files' = [files EXCEPT ![file.name] = Some(FileRecord(file))]
                   /\ Settle(c, "updateDocument", "resolved")
              ELSE /\ Settle(c, "updateDocument", "TransactionInactiveError")
                   /\ UNCHANGED files
    /\ UNCHANGED <<authVars, rnd, chatHistory, settings, dbVars, userVars>>

\* A delete that rejects when there is nothing under the key.
deleteDone_RejectsAbsent(c) ==
    /\ calls[c].op \in {"removeDocument", "clearChatHistory"}
    /\ calls[c].pc = "ready"
    /\ files' = IF calls[c].op = "removeDocument"
                THEN [files EXCEPT ![Val(calls[c].arg)] = Null] ELSE files
    /\ chatHistory' = IF calls[c].op = "clearChatHistory" THEN Null ELSE chatHistory
    /\ Settle(c, calls[c].op,
              IF files' = files /\ chatHistory' = chatHistory
              THEN "NotFoundError" ELSE "resolved")
    /\ UNCHANGED <<authVars, rnd, settings, dbVars, userVars>>

\* removeDocument, lines 345-351, and clearChatHistory, lines 403-409: the
\* delete request is made in the task that opened the transaction, nothing is
\* encrypted, and the promise resolves when the transaction completes.
deleteDone(c) ==
    /\ calls[c].op \in {"removeDocument", "clearChatHistory"}
    /\ calls[c].pc = "ready"
    /\ files' = IF calls[c].op = "removeDocument"
                THEN [files EXCEPT ![Val(calls[c].arg)] = Null] ELSE files
    /\ chatHistory' = IF calls[c].op = "clearChatHistory" THEN Null ELSE chatHistory
    /\ Settle(c, calls[c].op, "resolved")
    /\ UNCHANGED <<authVars, rnd, settings, dbVars, userVars>>

\* The four getters, once the connection is there: read, decrypt, resolve.
ReadResult(op) ==
    CASE op = "getDocuments" -> Some(DecryptedFiles)
      [] op = "getChatHistory" -> Some(DecryptedOrEmpty(chatHistory))
      [] op = "getPersonas" -> Some(DecryptedOrEmpty(settings[PERSONAS_KEY]))
      [] op = "getVoicePreference" -> DecryptedOrNull(settings[VOICE_PREF_KEY])

readDone(c) ==
    /\ calls[c].op \in {"getDocuments", "getChatHistory", "getPersonas",
                        "getVoicePreference"}
    /\ calls[c].pc = "ready"
    /\ calls' = [calls EXCEPT ![c] = Idle]
    /\ last' = Outcome(calls[c].op, "resolved", "", ReadResult(calls[c].op))
    /\ UNCHANGED <<authVars, rnd, storeVars, dbVars, userVars>>


\* ------------------------------------------------------ backup (Settings)
\* Settings.handleExport onSubmit, lines 620-650: snapshot, encrypt, download.
handleExport(c, password) == StartDbCall(c, "export", Some(password), Null)

exportDone(c) ==
    /\ calls[c].op = "export"
    /\ calls[c].pc = "ready"
    /\ backupFile' = Some(encryptBackup(AllDataForBackup, Val(calls[c].arg)))
    /\ Settle(c, "export", "resolved")
    /\ UNCHANGED <<authVars, rnd, storeVars, dbVars, scenario, held>>

\* The plaintext a stored record holds, whoever can or cannot decrypt it.
Plain(record) ==
    parse(decode(parse(Val(record).encryptedPayload).ciphertext).plaintext)
StoredNames == SelectSeq(NameOrder, LAMBDA n : files[n] # Null)
\* What the store holds, in the shape of getAllDataForBackup's result.
PlainData ==
    [files |-> [i \in 1..Len(StoredNames) |-> Plain(files[StoredNames[i]])],
     chatHistory |-> IF chatHistory = Null THEN <<>> ELSE Plain(chatHistory),
     personas |-> IF settings[PERSONAS_KEY] = Null THEN <<>>
                  ELSE Plain(settings[PERSONAS_KEY]),
     voicePreference |-> IF settings[VOICE_PREF_KEY] = Null THEN Null
                         ELSE Some(Plain(settings[VOICE_PREF_KEY]))]

\* An import that has cleared the stores by the time decryption fails.
ImportRejected_AfterClear(password) ==
    /\ last' = Outcome("import", "DecryptionError", password, Null)
    /\ files' = [n \in FileNames |-> Null]
    /\ chatHistory' = Null
    /\ settings' = [k \in DOMAIN settings |-> Null]
    /\ UNCHANGED <<authVars, calls, rnd, dbVars, userVars>>

\* Settings.handleImportRequest onSubmit, lines 685-691: the catch block.
ImportRejected(password) ==
    /\ last' = Outcome("import", "DecryptionError", password, Null)
    /\ UNCHANGED <<authVars, calls, rnd, storeVars, dbVars, userVars>>

\* Settings.handleImportRequest onSubmit, lines 680-682: decryptBackup is
\* awaited first; importAndOverwriteAllData starts only with its result.
handleImport(c, password) ==
    /\ calls[c] = Idle
    /\ backupFile # Null
    /\ LET decrypted == decryptBackup(Val(backupFile), password) IN
       IF decrypted.ok
       THEN StartDbCall(c, "import", decrypted.value, Some(PlainData))
       ELSE ImportRejected(password)

\* A clear that runs one transaction per store and has done the first.
clearAllData_FilesFirst(c) ==
    /\ calls[c].op = "import"
    /\ calls[c].pc = "ready"
    /\ files' = [n \in FileNames |-> Null]
    /\ calls' = [calls EXCEPT ![c].pc = "files"]
    /\ UNCHANGED <<authVars, last, rnd, chatHistory, settings, dbVars, userVars>>

\* clearAllData, lines 482-494: one transaction over the three stores.
clearAllData(c) ==
    /\ calls[c].op = "import"
    /\ calls[c].pc = "ready"
    /\ files' = [n \in FileNames |-> Null]
    /\ chatHistory' = Null
    /\ settings' = [k \in DOMAIN settings |-> Null]
    /\ calls' = [calls EXCEPT ![c].pc = "files"]
    /\ UNCHANGED <<authVars, last, rnd, dbVars, userVars>>

\* importAndOverwriteAllData, lines 512-515: the guards of the four saves.
ImportNeeded(stage, data) ==
    CASE stage = "files" -> Len(data.files) > 0
      [] stage = "chat" -> Len(data.chatHistory) > 0
      [] stage = "personas" -> Len(data.personas) > 0
      [] stage = "voice" -> data.voicePreference # Null /\ Val(data.voicePreference) # ""

ImportPut(stage, data) ==
    /\ files' = IF stage = "files"
                THEN [n \in FileNames |->
                        IF \E i \in 1..Len(data.files) : data.files[i].name = n
                        THEN Some(FileRecord(
                                 data.files[CHOOSE i \in 1..Len(data.files) :
                                                data.files[i].name = n]))
                        ELSE files[n]]
                ELSE files
    /\ PutKeyed(CASE stage = "chat" -> "saveChatHistory"
                  [] stage = "personas" -> "savePersonas"
                  [] stage = "voice" -> "saveVoicePreference"
                  [] OTHER -> "addDocuments",
                CASE stage = "chat" -> data.chatHistory
                  [] stage = "personas" -> data.personas
                  [] stage = "voice" -> Val(data.voicePreference)
                  [] OTHER -> <<>>)

NextStage(stage) ==
    CASE stage = "files" -> "chat"
      [] stage = "chat" -> "personas"
      [] stage = "personas" -> "voice"
      [] stage = "voice" -> "done"

\* importAndOverwriteAllData, lines 512-515: one awaited save per step; a
\* save that rejects rejects the import and the later saves never run.
importSave(c) ==
    /\ calls[c].op = "import"
    /\ calls[c].pc \in {"files", "chat", "personas", "voice"}
    /\ LET stage == calls[c].pc
           data == Val(calls[c].arg)
           Advance == IF NextStage(stage) = "done"
                      THEN Settle(c, "import", "resolved")
                      ELSE /\ calls' = [calls EXCEPT ![c].pc = NextStage(stage)]
                           /\ UNCHANGED last
       IN  IF ~ImportNeeded(stage, data)
           THEN Advance /\ UNCHANGED storeVars
           ELSE IF ~Authenticated
           THEN Settle(c, "import", "NotAuthenticated") /\ UNCHANGED storeVars
           ELSE \E accepted \in PutAccepted :
                  IF accepted
                  THEN Advance /\ ImportPut(stage, data)
                  ELSE /\ Settle(c, "import", "TransactionInactiveError")
                       /\ UNCHANGED storeVars
    /\ UNCHANGED <<authVars, rnd, dbVars, userVars>>

\* ------------------------------------------- direct encrypt / decrypt calls
Payloads == {"p1", "p2"}

\* What a caller keeps of an encrypt call: the plaintext it passed, the payload
\* encrypt returned, and the payload as it is now stored (the environment may
\* have altered it since).
Item(plain, payload) == [plain |-> plain, payload |-> payload, stored |-> payload]

\* encrypt, lines 470-483: the check, then AES-GCM under the data key as it is
\* at the call; the signing key is read only after the await (line 488).
cryptoEncrypt(c, data) ==
    /\ calls[c] = Idle
    /\ IF ~Authenticated
       THEN /\ last' = Outcome("encrypt", "NotAuthenticated", "", Null)
            /\ UNCHANGED calls
       ELSE /\ calls' = [calls EXCEPT ![c] =
                   [Idle EXCEPT !.op = "encrypt", !.pc = "sign", !.arg = Some(data),
                                !.snap = Some(AesGcmEncrypt(Val(dataEncryptionKey),
                                                            getRandomValues(0),
                                                            stringify(data)))]]
            /\ UNCHANGED last
    /\ UNCHANGED <<authVars, rnd, storeVars, dbVars, userVars>>

\* encrypt, lines 486-496: sign the ciphertext and return the payload.  A
\* session that ended during the await leaves signingKeyPair null, and reading
\* its privateKey throws a TypeError.
encryptSign(c) ==
    /\ calls[c].op = "encrypt"
    /\ calls[c].pc = "sign"
    /\ IF signingKeyPair = Null
       THEN /\ Settle(c, "encrypt", "TypeError")
            /\ UNCHANGED held
       ELSE LET encryptedContent == Val(calls[c].snap)
                payload == stringify(
                    [iv |-> encode(encryptedContent.iv),
                     ciphertext |-> encode(encryptedContent),
                     signature |-> encode(Sign(Val(signingKeyPair).privateKey,
                                               encryptedContent))])
            IN  /\ held' = Some(Item(Val(calls[c].arg), payload))
                /\ calls' = [calls EXCEPT ![c] = Idle]
                /\ last' = Outcome("encrypt", "resolved", "", Some(payload))
    /\ UNCHANGED <<authVars, rnd, storeVars, dbVars, backupFile, scenario>>

\* decrypt, lines 499-521: the check, the parse, and the verification under
\* the signing pair as it is at the call.
cryptoDecrypt(c) ==
    /\ calls[c] = Idle
    /\ held # Null
    /\ IF ~Authenticated
       THEN /\ last' = Outcome("decrypt", "NotAuthenticated", "", Null)
            /\ UNCHANGED calls
       ELSE LET payload == parse(Val(held).stored) IN
            /\ calls' = [calls EXCEPT ![c] =
                   [Idle EXCEPT !.op = "decrypt", !.pc = "verified",
                                !.arg = Some(Val(held).stored),
                                !.meta = signingKeyPair,
                                !.snap = Some(Verify(Val(signingKeyPair).publicKey,
                                                     decode(payload.signature),
                                                     decode(payload.ciphertext)))]]
            /\ UNCHANGED last
    /\ UNCHANGED <<authVars, rnd, storeVars, dbVars, userVars>>

\* A decrypt that opens the ciphertext first and looks at the verification
\* result only when that worked.
decryptOpen_DecryptFirst(c) ==
    /\ calls[c].op = "decrypt"
    /\ calls[c].pc = "verified"
    /\ LET payload == parse(Val(calls[c].arg))
           ciphertext == decode(payload.ciphertext)
       IN  IF dataEncryptionKey = Null
           THEN Settle(c, "decrypt", "TypeError")
           ELSE IF ~AesGcmOpens(Val(dataEncryptionKey), decode(payload.iv), ciphertext)
           THEN Settle(c, "decrypt", "DecryptionError")
           ELSE IF ~Val(calls[c].snap)
           THEN Settle(c, "decrypt", "IntegrityError")
           ELSE /\ calls' = [calls EXCEPT ![c] = Idle]
                /\ last' = Outcome("decrypt", "resolved", "",
                                   Some(parse(ciphertext.plaintext)))
    /\ UNCHANGED <<authVars, rnd, storeVars, dbVars, userVars>>

\* decrypt, lines 523-534: the integrity error, then AES-GCM under the data key
\* as it is after the await (null: TypeError; wrong key or IV: OperationError).
decryptOpen(c) ==
    /\ calls[c].op = "decrypt"
    /\ calls[c].pc = "verified"
    /\ LET payload == parse(Val(calls[c].arg))
           ciphertext == decode(payload.ciphertext)
       IN  IF ~Val(calls[c].snap)
           THEN Settle(c, "decrypt", "IntegrityError")
           ELSE IF dataEncryptionKey = Null
           THEN Settle(c, "decrypt", "TypeError")
           ELSE IF ~AesGcmOpens(Val(dataEncryptionKey), decode(payload.iv), ciphertext)
           THEN Settle(c, "decrypt", "DecryptionError")
           ELSE /\ calls' = [calls EXCEPT ![c] = Idle]
                /\ last' = Outcome("decrypt", "resolved", "",
                                   Some(parse(ciphertext.plaintext)))
    /\ UNCHANGED <<authVars, rnd, storeVars, dbVars, userVars>>

\* Direct calls of the backup codec.  What can be handed to encryptBackup: any
\* object of the shape getAllDataForBackup returns.
BackupData ==
    [files : {<<>>} \cup {<<f>> : f \in StoredFiles},
     chatHistory : ChatHistories,
     personas : PersonaSets,
     voicePreference : {Null} \cup {Some(v) : v \in VoiceNames}]

\* encryptBackup, lines 537-555, by a caller that keeps the bundle as a file.
encryptBackupCall(data, password) ==
    /\ backupFile' = Some(encryptBackup(data, password))
    /\ held' = Some(Item(data, encryptBackup(data, password)))
    /\ last' = Outcome("encryptBackup", "resolved", password, Null)
    /\ UNCHANGED <<authVars, calls, rnd, storeVars, dbVars, scenario>>

\* decryptBackup, lines 557-575, on the file the caller kept.
decryptBackupCall(password) ==
    /\ backupFile # Null
    /\ LET decrypted == decryptBackup(Val(backupFile), password) IN
       last' = Outcome("decryptBackup",
                       IF decrypted.ok THEN "resolved" ELSE decrypted.error,
                       password, decrypted.value)
    /\ UNCHANGED <<authVars, calls, rnd, storeVars, dbVars, userVars>>

\* ------------------------------------------------------------ environment
\* localStorage is outside the program: the stored metadata can be damaged.
MetadataFields == {"salt", "signingKeyIv", "encryptedSigningKey", "publicSignKey", "json"}

Damaged(metadata, field) ==
    CASE field = "salt" -> [metadata EXCEPT !.salt = encode(Garbage)]
      [] field = "signingKeyIv" -> [metadata EXCEPT !.signingKeyIv = encode(Garbage)]
      [] field = "encryptedSigningKey" ->
            [metadata EXCEPT !.encryptedSigningKey =
                 encode([decode(@) EXCEPT !.intact = FALSE])]
      [] field = "publicSignKey" -> [metadata EXCEPT !.publicSignKey = Garbage]
      [] field = "json" -> [metadata EXCEPT !.wellFormed = FALSE]

Intact(metadata) == \E p \in Passwords : Unwraps(metadata, p)

CorruptMetadata(field) ==
    /\ authMetadata # Null
    /\ Intact(Val(authMetadata))
    /\ authMetadata' = Some(Damaged(Val(authMetadata), field))
    /\ last' = Outcome("corrupt", field, "", Null)
    /\ UNCHANGED <<dataEncryptionKey, signingKeyPair, calls, rnd, storeVars,
                   dbVars, userVars>>

\* IndexedDB and whatever holds a payload are outside the program too: a stored
\* payload can have its ciphertext or its signature altered, bit by bit or by
\* bytes copied from another record of the same session (a ciphertext the same
\* key produced under another IV); its IV can be damaged.
TamperKinds == {"ciphertext", "signature", "both", "ciphertextOfOther",
                "signatureOfOther"}
DamageKinds == TamperKinds \cup {"iv"}

Tampered(payloadJSON, kind) ==
    LET payload == parse(payloadJSON)
        ciphertext == decode(payload.ciphertext)
        signature == decode(payload.signature)
        other == [ciphertext EXCEPT !.iv = getRandomValues(1)]
        flipped == [ciphertext EXCEPT !.intact = FALSE]
        forged == [signature EXCEPT !.intact = FALSE]
    IN  stringify(
          CASE kind = "ciphertext" -> [payload EXCEPT !.ciphertext = encode(flipped)]
            [] kind = "signature" -> [payload EXCEPT !.signature = encode(forged)]
            [] kind = "both" -> [payload EXCEPT !.ciphertext = encode(flipped),
                                                !.signature = encode(forged)]
            [] kind = "ciphertextOfOther" ->
                  [payload EXCEPT !.ciphertext = encode(other)]
            [] kind = "signatureOfOther" ->
                  [payload EXCEPT !.signature =
                       encode([signature EXCEPT !.over = other])]
            [] kind = "iv" -> [payload EXCEPT !.iv = encode(Garbage)])

\* A payload whose ciphertext or signature is not what encrypt produced.
Altered(payloadJSON) ==
    LET payload == parse(payloadJSON)
        ciphertext == decode(payload.ciphertext)
        signature == decode(payload.signature)
    IN  ~ciphertext.intact \/ ~signature.intact \/ signature.over # ciphertext

Damaged_Iv(payloadJSON) == decode(parse(payloadJSON).iv) = Garbage

TamperHeld(kind) ==
    /\ held # Null
    /\ Val(held).stored = Val(held).payload
    /\ held' = Some([Val(held) EXCEPT !.stored = Tampered(@, kind)])
    /\ last' = Outcome("tamper", kind, "", Null)
    /\ UNCHANGED <<authVars, calls, rnd, storeVars, dbVars, backupFile, scenario>>

\* One record of the files store is damaged; the others stay as written.
NoFileDamaged ==
    \A n \in FileNames :
        files[n] # Null =>
            /\ ~Altered(Val(files[n]).encryptedPayload)
            /\ ~Damaged_Iv(Val(files[n]).encryptedPayload)

TamperFile(name, kind) ==
    /\ files[name] # Null
    /\ NoFileDamaged
    /\ files' = [files EXCEPT ![name] =
                    Some([Val(@) EXCEPT !.encryptedPayload = Tampered(@, kind)])]
    /\ last' = Outcome("tamper", kind, "", Null)
    /\ UNCHANGED <<authVars, calls, rnd, chatHistory, settings, dbVars, userVars>>

\* ------------------------------------------------------------ specification
NotRunning == [step |-> 0, password |-> "", wrong |-> "", file |-> Null]

Init ==
    /\ authMetadata = Null
    /\ dataEncryptionKey = Null
    /\ signingKeyPair = Null
    /\ calls = [c \in Calls |-> Idle]
    /\ last = Outcome("init", "", "", Null)
    /\ rnd = 0
    /\ files = [n \in FileNames |-> Null]
    /\ chatHistory = Null
    /\ settings = [k \in {PERSONAS_KEY, VOICE_PREF_KEY} |-> Null]
    /\ dbInstance = Null
    /\ deletePending = FALSE
    /\ connections = 0
    /\ backupFile = Null
    /\ scenario = NotRunning
    /\ held = Null

\* The authentication calls of slot c.
AuthCall(c) ==
    \/ \E p \in Passwords : setup(c, p)
    \/ SetupPersist(c)
    \/ \E p \in Passwords : login(c, p)
    \/ LoginUnwrap(c)
    \/ LoginDerive(c)

\* The authentication lifecycle, with calls that overlap.
Next ==
    \/ \E c \in Calls : AuthCall(c)
    \/ logout
    \/ reset
    \/ Reload

Spec == Init /\ [][Next]_vars

\* The authentication lifecycle, one call at a time, over a localStorage that
\* can be damaged.
EnvNext ==
    \/ AuthCall(1)
    \/ logout
    \/ reset
    \/ Reload
    \/ \E field \in MetadataFields : CorruptMetadata(field)

SpecEnv == Init /\ [][EnvNext]_vars

LongPasswords == {p \in Passwords : Len(p) >= MinPasswordLength}
OneFile == {<<f>> : f \in {x \in StoredFiles : x.name = "a.txt"}}

\* Set up, fill the three stores, read them, reset, reload; one call at a time.
ResetNext ==
    \/ \E p \in LongPasswords : setup(1, p)
    \/ SetupPersist(1)
    \/ LoginUnwrap(1)
    \/ LoginDerive(1)
    \/ \E batch \in OneFile : addDocuments(1, batch)
    \/ addDocumentsPut(1)
    \/ saveChatHistory(1, <<"hi">>)
    \/ savePersonas(1, <<"persona1">>)
    \/ saveVoicePreference(1, "Puck")
    \/ savePut(1)
    \/ getDocuments(1)
    \/ getChatHistory(1)
    \/ getPersonas(1)
    \/ getVoicePreference(1)
    \/ readDone(1)
    \/ openDBSuccess(1)
    \/ reset
    \/ Reload

SpecReset == Init /\ [][ResetNext]_vars

\* One installation: fill the stores, export a backup, import it again.
ImportNext ==
    \/ setup(1, "longpassword1")
    \/ SetupPersist(1)
    \/ login(1, "longpassword1")
    \/ LoginUnwrap(1)
    \/ LoginDerive(1)
    \/ \E batch \in OneFile : addDocuments(1, batch)
    \/ addDocumentsPut(1)
    \/ saveChatHistory(1, <<"hi">>)
    \/ saveVoicePreference(1, "Puck")
    \/ savePut(1)
    \/ openDBSuccess(1)
    \/ \E p \in LongPasswords : handleExport(1, p)
    \/ exportDone(1)
    \/ \E p \in LongPasswords : handleImport(1, p)
    \/ clearAllData(1)
    \/ importSave(1)
    \/ Reload

SpecImport == Init /\ [][ImportNext]_vars

\* The end-to-end scenario, run by a client that awaits each call:
\* setup(p), addDocuments([f]), logout(), login(q), login(p), getDocuments().
ScenarioStart ==
    /\ scenario.step = 0
    /\ \E p \in LongPasswords, q \in Passwords, f \in StoredFiles :
          /\ q # p
          /\ scenario' = [step |-> 1, password |-> p, wrong |-> q, file |-> Some(f)]
    /\ UNCHANGED <<authVars, calls, last, rnd, storeVars, dbVars, backupFile, held>>

ScenarioSettled ==
    CASE scenario.step = 1 -> last.op = "setup"
      [] scenario.step = 2 -> last.op = "addDocuments"
      [] scenario.step = 3 -> last.op = "logout"
      [] scenario.step = 4 -> last.op = "login" /\ last.password = scenario.wrong
      [] scenario.step = 5 -> last.op = "login" /\ last.password = scenario.password
      [] scenario.step = 6 -> last.op = "getDocuments"
      [] OTHER -> FALSE

ScenarioTurn(k) == scenario.step = k /\ NoCallInFlight /\ ~ScenarioSettled

ScenarioAdvance ==
    /\ NoCallInFlight
    /\ ScenarioSettled
    /\ scenario' = [scenario EXCEPT !.step = @ + 1]
    /\ UNCHANGED <<authVars, calls, last, rnd, storeVars, dbVars, backupFile, held>>

ScenarioNext ==
    \/ ScenarioStart
    \/ ScenarioAdvance
    \/ ScenarioTurn(1) /\ setup(1, scenario.password)
    \/ SetupPersist(1)
    \/ ScenarioTurn(2) /\ addDocuments(1, <<Val(scenario.file)>>)
    \/ openDBSuccess(1)
    \/ addDocumentsPut(1)
    \/ ScenarioTurn(3) /\ logout
    \/ ScenarioTurn(4) /\ login(1, scenario.wrong)
    \/ ScenarioTurn(5) /\ login(1, scenario.password)
    \/ LoginUnwrap(1)
    \/ LoginDerive(1)
    \/ ScenarioTurn(6) /\ getDocuments(1)
    \/ readDone(1)

SpecScenario == Init /\ [][ScenarioNext]_vars

\* Direct callers of encrypt / decrypt (slot 2) beside the authentication calls
\* (slot 1), over payloads that can be altered where they are kept.
CryptoNext ==
    \/ \E p \in LongPasswords : setup(1, p)
    \/ SetupPersist(1)
    \/ \E p \in Passwords : login(1, p)
    \/ LoginUnwrap(1)
    \/ LoginDerive(1)
    \/ logout
    \/ reset
    \/ Reload
    \/ \E data \in Payloads : cryptoEncrypt(2, data)
    \/ encryptSign(2)
    \/ cryptoDecrypt(2)
    \/ decryptOpen(2)
    \/ \E kind \in TamperKinds : TamperHeld(kind)

SpecCrypto == Init /\ [][CryptoNext]_vars

TwoFiles == {<<[name |-> "a.txt", data |-> "c1"], [name |-> "b.txt", data |-> "c1"]>>}

\* One installation whose sessions come and go: logins that fail and succeed,
\* logout, writes and reads, and records damaged where they are stored.
StoreNext ==
    \/ setup(1, "longpassword1")
    \/ SetupPersist(1)
    \/ \E p \in Passwords : login(1, p)
    \/ LoginUnwrap(1)
    \/ LoginDerive(1)
    \/ logout
    \/ \E batch \in TwoFiles : addDocuments(1, batch)
    \/ addDocumentsPut(1)
    \/ saveChatHistory(1, <<"hi">>)
    \/ savePut(1)
    \/ getDocuments(1)
    \/ getChatHistory(1)
    \/ getPersonas(1)
    \/ getVoicePreference(1)
    \/ readDone(1)
    \/ openDBSuccess(1)
    \/ \E n \in FileNames, kind \in DamageKinds : TamperFile(n, kind)

SpecStore == Init /\ [][StoreNext]_vars

\* The backup codec on its own: any data, any password, any password back.
CodecNext ==
    \/ \E data \in BackupData, password \in Passwords :
          encryptBackupCall(data, password)
    \/ \E password \in Passwords : decryptBackupCall(password)

SpecCodec == Init /\ [][CodecNext]_vars

\* One session of one installation: save any content, export it, import it.
RoundTripNext ==
    \/ setup(1, "longpassword1")
    \/ SetupPersist(1)
    \/ LoginUnwrap(1)
    \/ LoginDerive(1)
    \/ \E batch \in OneFile : addDocuments(1, batch)
    \/ addDocumentsPut(1)
    \/ \E messages \in ChatHistories : saveChatHistory(1, messages)
    \/ \E personas \in PersonaSets : savePersonas(1, personas)
    \/ \E voiceName \in VoiceNames : saveVoicePreference(1, voiceName)
    \/ savePut(1)
    \/ openDBSuccess(1)
    \/ \E p \in LongPasswords : handleExport(1, p)
    \/ exportDone(1)
    \/ \E p \in LongPasswords : handleImport(1, p)
    \/ clearAllData(1)
    \/ importSave(1)

SpecRoundTrip == Init /\ [][RoundTripNext]_vars

\* Two installations in a row: the first, under one master password, is filled
\* and exported; after reset() and a setup under another master password the
\* backup is imported.  reset and reload happen between calls.
RestoreNext ==
    \/ rnd = 0 /\ setup(1, "longpassword1")
    \/ rnd = 1 /\ setup(1, "wrongpass")
    \/ SetupPersist(1)
    \/ LoginUnwrap(1)
    \/ LoginDerive(1)
    \/ rnd = 1 /\ \E batch \in OneFile : addDocuments(1, batch)
    \/ addDocumentsPut(1)
    \/ rnd = 1 /\ saveChatHistory(1, <<"hi">>)
    \/ rnd = 1 /\ saveVoicePreference(1, "Puck")
    \/ savePut(1)
    \/ openDBSuccess(1)
    \/ rnd = 1 /\ \E p \in LongPasswords : handleExport(1, p)
    \/ exportDone(1)
    \/ NoCallInFlight /\ reset
    \/ NoCallInFlight /\ Reload
    \/ rnd = 2 /\ \E p \in LongPasswords : handleImport(1, p)
    \/ clearAllData(1)
    \/ importSave(1)

SpecRestore == Init /\ [][RestoreNext]_vars

\* Store calls that overlap, from the first open of the page on.
OpenNext ==
    \/ \E c \in Calls :
          \/ getDocuments(c)
          \/ getChatHistory(c)
          \/ getPersonas(c)
          \/ getVoicePreference(c)
          \/ openDBSuccess(c)
          \/ readDone(c)
    \/ Reload

SpecOpen == Init /\ [][OpenNext]_vars

\* One session that uses every write of the store, and exports and imports.
PersistNext ==
    \/ setup(1, "longpassword1")
    \/ SetupPersist(1)
    \/ LoginUnwrap(1)
    \/ LoginDerive(1)
    \/ \E batch \in OneFile : addDocuments(1, batch)
    \/ addDocumentsPut(1)
    \/ updateDocument(1, [name |-> "b.txt", data |-> "c1"])
    \/ updateDocumentPut(1)
    \/ saveChatHistory(1, <<"hi">>)
    \/ savePersonas(1, <<"persona1">>)
    \/ saveVoicePreference(1, "Puck")
    \/ savePut(1)
    \/ openDBSuccess(1)
    \/ handleExport(1, "longpassword1")
    \/ exportDone(1)
    \/ handleImport(1, "longpassword1")
    \/ clearAllData(1)
    \/ importSave(1)

SpecPersist == Init /\ [][PersistNext]_vars

\* Records written in a session and deleted, in a session or without one.
DeleteNext ==
    \/ setup(1, "longpassword1")
    \/ SetupPersist(1)
    \/ LoginUnwrap(1)
    \/ LoginDerive(1)
    \/ logout
    \/ \E batch \in OneFile : addDocuments(1, batch)
    \/ addDocumentsPut(1)
    \/ saveChatHistory(1, <<"hi">>)
    \/ savePersonas(1, <<"persona1">>)
    \/ savePut(1)
    \/ \E fileName \in FileNames : removeDocument(1, fileName)
    \/ clearChatHistory(1)
    \/ deleteDone(1)
    \/ openDBSuccess(1)

SpecDelete == Init /\ [][DeleteNext]_vars

\* One installation; payloads made by encrypt are damaged in every way, the IV
\* included, and decrypted, while the session comes and goes.
VerifyNext ==
    \/ setup(1, "longpassword1")
    \/ SetupPersist(1)
    \/ \E p \in Passwords : login(1, p)
    \/ LoginUnwrap(1)
    \/ LoginDerive(1)
    \/ logout
    \/ \E data \in Payloads : cryptoEncrypt(2, data)
    \/ encryptSign(2)
    \/ cryptoDecrypt(2)
    \/ decryptOpen(2)
    \/ \E kind \in DamageKinds : TamperHeld(kind)

SpecVerify == Init /\ [][VerifyNext]_vars

\* An import (slot 1) into stores that hold data, beside reads (slot 2) that
\* start and end at any point of it.
ClearNext ==
    \/ setup(1, "longpassword1")
    \/ SetupPersist(1)
    \/ LoginUnwrap(1)
    \/ LoginDerive(1)
    \/ \E batch \in OneFile : addDocuments(1, batch)
    \/ addDocumentsPut(1)
    \/ saveChatHistory(1, <<"hi">>)
    \/ saveVoicePreference(1, "Puck")
    \/ savePut(1)
    \/ handleExport(1, "longpassword1")
    \/ exportDone(1)
    \/ handleImport(1, "longpassword1")
    \/ clearAllData(1)
    \/ importSave(1)
    \/ getDocuments(2)
    \/ getChatHistory(2)
    \/ getVoicePreference(2)
    \/ readDone(2)
    \/ \E c \in Calls : openDBSuccess(c)

SpecClear == Init /\ [][ClearNext]_vars

\* The chat screen saves on every change of its messages without awaiting the
\* save before: the save of the first message (slot 1) is in flight when the
\* save of the first two messages (slot 2) is started.
EarlierChat == <<"hi">>
LaterChat == <<"hi", "there">>

ChatNext ==
    \/ setup(1, "longpassword1")
    \/ SetupPersist(1)
    \/ LoginUnwrap(1)
    \/ LoginDerive(1)
    \/ calls[2] = Idle /\ chatHistory = Null /\ saveChatHistory(1, EarlierChat)
    \/ calls[1].op = "saveChatHistory" /\ saveChatHistory(2, LaterChat)
    \/ \E c \in Calls : openDBSuccess(c)
    \/ \E c \in Calls : savePut(c)
    \/ getChatHistory(1)
    \/ readDone(1)
    \/ NoCallInFlight /\ Reload

SpecChat == Init /\ [][ChatNext]_vars

\* ------------------------------------------------------------------ claims
SessionCleared == dataEncryptionKey = Null /\ signingKeyPair = Null

\* C1: a login whose password does not unwrap the metadata it loaded, or whose
\* metadata is damaged, returns false (it never throws), and at its return both
\* session keys are null, whatever they were before.
C1_FailedLoginClearsSession ==
    [][\A c \in Calls :
          /\ (calls[c].op = "login" /\ calls[c].pc = "unwrap"
                /\ ~Unwraps(Val(calls[c].meta), calls[c].password)
                /\ LoginUnwrap(c))
             => (last' = Outcome("login", "false", calls[c].password, Null)
                   /\ SessionCleared')
          /\ \A p \in Passwords :
                (authMetadata # Null /\ ~Val(authMetadata).wellFormed /\ login(c, p))
                => (last' = Outcome("login", "false", p, Null) /\ SessionCleared')
      ]_vars

\* C1 witness: a wrong-password login has just returned false with the metadata
\* in place and no session left.
C1_Witness ==
    /\ last.op = "login" /\ last.result = "false"
    /\ authMetadata # Null
    /\ Intact(Val(authMetadata))
    /\ ~Unwraps(Val(authMetadata), last.password)
    /\ SessionCleared

\* C2: whenever no call is in flight, the two session keys are both set or both
\* null.
C2_SessionKeysTogether ==
    NoCallInFlight => ((dataEncryptionKey = Null) <=> (signingKeyPair = Null))

\* C8: once AuthMetadata is stored, no step other than reset() changes it.
C8_MetadataImmutableUntilReset ==
    [][(authMetadata # Null /\ ~reset) => authMetadata' = authMetadata]_vars

\* C9: setup() called while AuthMetadata is stored throws and leaves the
\* metadata and both session keys as they were.
C9_SetupWhenSetUpFails ==
    [][\A c \in Calls, p \in Passwords :
          (authMetadata # Null /\ setup(c, p))
          => (last' = Outcome("setup", "threw", p, Null) /\ UNCHANGED authVars)
      ]_vars

\* C9 witness: a setup() has just thrown while a session of the existing
\* installation is active.
C9_Witness ==
    /\ last.op = "setup" /\ last.result = "threw"
    /\ authMetadata # Null
    /\ Authenticated

\* C10: a setup() with a password shorter than 8 characters fails: it throws,
\* having stored no AuthMetadata and created no session.
C10_ShortPasswordRejected ==
    (last.op = "setup" /\ Len(last.password) < MinPasswordLength)
        => last.result = "threw"

\* C3: the scenario setup("longpassword1"), addDocuments([a.txt]), logout(),
\* login("wrongpass"), login("longpassword1"), getDocuments() ends with
\* getDocuments returning exactly the stored a.txt.
C3_ScenarioReturnsFile ==
    (/\ scenario.step = 7
     /\ scenario.password = "longpassword1"
     /\ scenario.wrong = "wrongpass"
     /\ Val(scenario.file).name = "a.txt")
        => (/\ last.op = "getDocuments"
            /\ last.result = "resolved"
            /\ last.value = Some(<<Val(scenario.file)>>))

\* C4: an import whose backup password does not decrypt the bundle leaves the
\* three stores untouched, and no import clears a store before it holds the
\* decrypted, parsed bundle.
C4_WrongBackupPasswordKeepsData ==
    [][\A c \in Calls :
          /\ \A p \in Passwords :
                (/\ backupFile # Null
                 /\ ~decryptBackup(Val(backupFile), p).ok
                 /\ handleImport(c, p))
                => (/\ UNCHANGED storeVars
                    /\ last' = Outcome("import", "DecryptionError", p, Null))
          /\ (calls[c].op = "import" /\ storeVars' # storeVars)
                => calls[c].arg # Null
      ]_vars

\* C4 witness: an import has just failed on the backup password while all
\* three stores hold data.
C4_Witness ==
    /\ last.op = "import" /\ last.result = "DecryptionError"
    /\ files["a.txt"] # Null
    /\ chatHistory # Null
    /\ settings[VOICE_PREF_KEY] # Null

\* C5: when an import call ends (resolved, rejected, or cut off by a reload),
\* the store holds either what it held before the import or what the bundle
\* holds.
C5_ImportAtomic ==
    [][\A c \in Calls :
          (calls[c].op = "import" /\ calls'[c] = Idle)
          => (PlainData' = Val(calls[c].snap) \/ PlainData' = Val(calls[c].arg))
      ]_vars

StoreEmpty ==
    /\ \A n \in FileNames : files[n] = Null
    /\ chatHistory = Null
    /\ \A k \in DOMAIN settings : settings[k] = Null

\* C6: when reset() returns, the session keys are null, isSetup() is false and
\* the three stores are empty, also for the connection opened before the reset.
C6_ResetWipesEverything ==
    [][reset => (SessionCleared' /\ authMetadata' = Null /\ StoreEmpty')]_vars

NothingReadable ==
    /\ DecryptedFiles = <<>>
    /\ DecryptedOrEmpty(chatHistory) = <<>>
    /\ DecryptedOrEmpty(settings[PERSONAS_KEY]) = <<>>
    /\ DecryptedOrNull(settings[VOICE_PREF_KEY]) = Null

CurrentInstall(record) ==
    /\ authMetadata # Null
    /\ decode(parse(Val(record).encryptedPayload).signature).signer
           = Val(authMetadata).publicSignKey

C11_NotAuthenticatedFailsFast ==
    [][\A c \in Calls :
          (dataEncryptionKey = Null \/ signingKeyPair = Null) =>
             /\ \A data \in Payloads :
                   cryptoEncrypt(c, data) =>
                      /\ last' = Outcome("encrypt", "NotAuthenticated", "", Null)
                      /\ UNCHANGED <<authVars, calls, rnd, storeVars, dbVars, userVars>>
             /\ cryptoDecrypt(c) =>
                   /\ last' = Outcome("decrypt", "NotAuthenticated", "", Null)
                   /\ UNCHANGED <<authVars, calls, rnd, storeVars, dbVars, userVars>>
      ]_vars

\* C11 witness: decrypt has just failed with NotAuthenticated on a held payload
\* while only one of the two session keys was null.
C11_Witness ==
    /\ last.op = "decrypt" /\ last.result = "NotAuthenticated"
    /\ held # Null
    /\ signingKeyPair # Null
    /\ dataEncryptionKey = Null

\* The session keys a login with this password assigns from this metadata.
SessionKeys(metadata, password) ==
    [dataEncryptionKey |->
         deriveKey(password, decode(metadata.salt), {"encrypt", "decrypt"}),
     signingKeyPair |->
         [privateKey |-> parse(decode(metadata.encryptedSigningKey).plaintext),
          publicKey |-> metadata.publicSignKey]]

\* The payload was produced by encrypt in a session of this password and metadata.
MadeIn(payloadJSON, metadata, password) ==
    LET payload == parse(payloadJSON)
        keys == SessionKeys(metadata, password)
    IN  /\ decode(payload.ciphertext).key = keys.dataEncryptionKey
        /\ decode(payload.signature).signer = keys.signingKeyPair.privateKey

\* C13: a payload that encrypt produced in a session of some password and the
\* stored AuthMetadata, decrypted in a session of the same password and
\* metadata (the same one or a later one), yields the plaintext that was
\* encrypted.
C13_RoundTrip ==
    [][\A c \in Calls :
          (/\ calls[c].op = "decrypt"
           /\ decryptOpen(c)
           /\ held # Null
           /\ calls[c].arg = Some(Val(held).stored)
           /\ Val(held).stored = Val(held).payload
           /\ authMetadata # Null
           /\ \E p \in Passwords :
                 /\ Unwraps(Val(authMetadata), p)
                 /\ MadeIn(Val(held).stored, Val(authMetadata), p)
                 /\ calls[c].meta = Some(SessionKeys(Val(authMetadata), p).signingKeyPair)
                 /\ dataEncryptionKey =
                        Some(SessionKeys(Val(authMetadata), p).dataEncryptionKey))
          => last' = Outcome("decrypt", "resolved", "", Some(Val(held).plain))
      ]_vars

\* C13 witness: right after a login returned true, a decrypt of a payload made
\* before that login has passed verification and is about to open it.
C13_Witness ==
    /\ last.op = "login" /\ last.result = "true"
    /\ held # Null
    /\ \E c \in Calls :
          /\ calls[c].op = "decrypt"
          /\ calls[c].arg = Some(Val(held).stored)
          /\ Val(calls[c].snap)
    /\ authMetadata # Null
    /\ MadeIn(Val(held).stored, Val(authMetadata), last.password)
    /\ dataEncryptionKey =
           Some(SessionKeys(Val(authMetadata), last.password).dataEncryptionKey)

ProtectedOps == {"addDocuments", "saveChatHistory", "savePersonas",
                 "saveVoicePreference", "getDocuments", "getChatHistory",
                 "getPersonas", "getVoicePreference"}

\* C12: with no session keys after a failed login, every protected store call,
\* read or write, ends with NotAuthenticated rather than with a result.
C12_ProtectedCallsNeedSession ==
    [][\A c \in Calls :
          (/\ last.op = "login" /\ last.result = "false"
           /\ authMetadata # Null
           /\ SessionCleared
           /\ calls[c].op \in ProtectedOps
           /\ calls'[c] = Idle)
          => last' = Outcome(calls[c].op, "NotAuthenticated", "", Null)
      ]_vars

\* The stored files whose record does not decrypt in the current session.
FailingNames == {n \in FileNames : files[n] # Null
                                   /\ ~decrypt(Val(files[n]).encryptedPayload).ok}
SoundNames == SelectSeq(StoredNames, LAMBDA n : n \notin FailingNames)

\* C15: when exactly one of the stored file records fails verification or
\* decryption, getDocuments resolves with exactly the other files, in order.
C15_CorruptedRecordIsolated ==
    [][\A c \in Calls :
          (/\ calls[c].op = "getDocuments"
           /\ readDone(c)
           /\ Cardinality(FailingNames) = 1)
          => last' = Outcome("getDocuments", "resolved", "",
                             Some([i \in 1..Len(SoundNames) |->
                                      Plain(files[SoundNames[i]])]))
      ]_vars

\* C15 witness: with two files stored and exactly one of them damaged,
\* getDocuments has just resolved with the one other file.
C15_Witness ==
    /\ last.op = "getDocuments" /\ last.result = "resolved"
    /\ Authenticated
    /\ Len(StoredNames) = 2
    /\ ~NoFileDamaged
    /\ Cardinality(FailingNames) = 1
    /\ Len(Val(last.value)) = 1
    /\ \E n \in FileNames \ FailingNames : Val(last.value)[1] = Plain(files[n])

\* C20: logout() changes neither the stored AuthMetadata nor any record of any
\* store, and isSetup() is the same before and after.
C20_LogoutMemoryOnly ==
    [][logout => (/\ UNCHANGED <<authMetadata, files, chatHistory, settings>>
                  /\ (authMetadata' # Null) = (authMetadata # Null)
                  /\ SessionCleared')]_vars

\* C20 witness: logout has just ended a session of an installation whose
\* metadata and records are all still there.
C20_Witness ==
    /\ last.op = "logout"
    /\ SessionCleared
    /\ authMetadata # Null
    /\ Len(StoredNames) = 2
    /\ chatHistory # Null

\* The password a backup bundle was encrypted under.
BundlePassword(bundle) == decode(parse(bundle).encryptedData).key.password

\* C16: decryptBackup of a bundle under the password it was encrypted with
\* returns the data that was encrypted; under any other password it fails with
\* a decryption error.
C16_BackupCodec ==
    [][\A B2 \in Passwords :
          (backupFile # Null /\ held # Null /\ decryptBackupCall(B2)) =>
             IF B2 = BundlePassword(Val(held).payload)
             THEN last' = Outcome("decryptBackup", "resolved", B2, Some(Val(held).plain))
             ELSE last' = Outcome("decryptBackup", "DecryptionError", B2, Null)
      ]_vars

\* C16 witness: a bundle holding a file, a chat history, personas and an empty
\* voice preference has just been decrypted to the data it was made from.
C16_Witness ==
    /\ last.op = "decryptBackup" /\ last.result = "resolved"
    /\ held # Null
    /\ last.value = Some(Val(held).plain)
    /\ Len(Val(held).plain.files) = 1
    /\ Val(held).plain.voicePreference = Some("")

\* C17: when an import of an exported bundle resolves, getAllDataForBackup
\* returns what the bundle holds, which is what getAllDataForBackup returned
\* when the bundle was exported; also for empty lists and for an empty-string
\* voice preference.
C17_StoreBackupRoundTrip ==
    [][\A c \in Calls :
          (/\ calls[c].op = "import"
           /\ importSave(c)
           /\ last'.op = "import" /\ last'.result = "resolved"
           /\ Authenticated)
          => AllDataForBackup' = Val(calls[c].arg)
      ]_vars

\* C18: a bundle exported under the first master password and imported, with
\* its backup password, in a session of the installation set up after reset()
\* under another master password: the import resolves and the imported records
\* are readable in that session.
C18_BackupIndependentOfMaster ==
    [][\A c \in Calls :
          (/\ calls[c].op = "import"
           /\ calls'[c] = Idle
           /\ Authenticated
           /\ authMetadata # Null
           /\ Unwraps(Val(authMetadata), "wrongpass"))
          => (/\ last' = Outcome("import", "resolved", "", Null)
              /\ AllDataForBackup' = Val(calls[c].arg))
      ]_vars

\* C19: however the openDB calls of a page overlap, at most one connection is
\* opened and every caller is handed that same connection.
C19_SingleConnection ==
    /\ connections <= 1
    /\ \A c, d \in Calls :
          (calls[c].db # Null /\ calls[d].db # Null) => calls[c].db = calls[d].db

\* The payload is an EncryptedRecord as encrypt builds it: the JSON text of an
\* IV, an AES-GCM ciphertext made under a derived key and that IV, and a
\* signature over that ciphertext.
IsEncryptedRecord(payloadJSON) ==
    /\ payloadJSON[1] = "json"
    /\ DOMAIN parse(payloadJSON) = {"iv", "ciphertext", "signature"}
    /\ LET payload == parse(payloadJSON)
           ciphertext == decode(payload.ciphertext)
           signature == decode(payload.signature)
       IN  /\ DOMAIN ciphertext.key = {"password", "salt"}
           /\ ciphertext = AesGcmEncrypt(ciphertext.key, decode(payload.iv),
                                         ciphertext.plaintext)
           /\ signature = Sign(signature.signer, ciphertext)

\* A stored record: its key in the clear, its payload as an EncryptedRecord.
EncryptedOnly(record, keyField) ==
    record # Null =>
        /\ DOMAIN Val(record) = {keyField, "encryptedPayload"}
        /\ IsEncryptedRecord(Val(record).encryptedPayload)

\* C21: every record of the three stores carries its payload only as an
\* EncryptedRecord, and every step that writes a record writes what encrypt
\* returns for the value in the session of the write.
C21_NoPlaintextPersisted ==
    /\ [](/\ \A n \in FileNames : EncryptedOnly(files[n], "name")
          /\ EncryptedOnly(chatHistory, "id")
          /\ \A k \in DOMAIN settings : EncryptedOnly(settings[k], "id"))
    /\ [][/\ \A n \in FileNames :
               (files'[n] # files[n] /\ files'[n] # Null) =>
                  /\ Authenticated
                  /\ \E f \in StoredFiles :
                        files'[n] = Some([name |-> n, encryptedPayload |-> encrypt(f)])
          /\ (chatHistory' # chatHistory /\ chatHistory' # Null) =>
                  /\ Authenticated
                  /\ \E messages \in ChatHistories :
                        chatHistory' = Some([id |-> "current_chat",
                                             encryptedPayload |-> encrypt(messages)])
          /\ \A k \in DOMAIN settings :
               (settings'[k] # settings[k] /\ settings'[k] # Null) =>
                  /\ Authenticated
                  /\ IF k = PERSONAS_KEY
                     THEN \E personas \in PersonaSets :
                             settings'[k] = Some([id |-> k,
                                                  encryptedPayload |-> encrypt(personas)])
                     ELSE \E voiceName \in VoiceNames :
                             settings'[k] = Some([id |-> k,
                                                  encryptedPayload |-> encrypt(voiceName)])
      ]_vars

\* C21 witness: an import has just resolved, and all three stores hold records
\* its saves wrote: a file, a chat history, personas and a voice preference.
C21_Witness ==
    /\ last.op = "import" /\ last.result = "resolved"
    /\ Len(StoredNames) = 1
    /\ chatHistory # Null
    /\ settings[PERSONAS_KEY] # Null
    /\ settings[VOICE_PREF_KEY] # Null

\* C22: removeDocument(name) and clearChatHistory() on a key that is not in
\* the store resolve and leave the three stores as they were; any delete
\* resolves with the key absent and every other record untouched, so a second
\* delete of the same key changes nothing.
C22_DeleteIdempotent ==
    [][\A c \in Calls :
          deleteDone(c) =>
             /\ last' = Outcome(calls[c].op, "resolved", "", Null)
             /\ UNCHANGED settings
             /\ IF calls[c].op = "removeDocument"
                THEN /\ files'[Val(calls[c].arg)] = Null
                     /\ \A n \in FileNames \ {Val(calls[c].arg)} : files'[n] = files[n]
                     /\ UNCHANGED chatHistory
                     /\ files[Val(calls[c].arg)] = Null => UNCHANGED storeVars
                ELSE /\ chatHistory' = Null
                     /\ UNCHANGED files
                     /\ chatHistory = Null => UNCHANGED storeVars
      ]_vars

\* C22 witness: removeDocument("b.txt") has just resolved in a store that never
\* held b.txt and still holds a.txt, the chat history and the personas.
C22_Witness ==
    /\ last.op = "removeDocument" /\ last.result = "resolved"
    /\ files["b.txt"] = Null
    /\ files["a.txt"] # Null
    /\ chatHistory # Null
    /\ settings[PERSONAS_KEY] # Null

\* The signature of the payload verifies under the public key decrypt read.
Verifies(payloadJSON, pair) ==
    Verify(pair.publicKey, decode(parse(payloadJSON).signature),
           decode(parse(payloadJSON).ciphertext))

\* C23: decrypt verifies the signature before it opens the ciphertext.  On a
\* payload whose signature does not verify it fails with IntegrityError and
\* returns nothing; every outcome of the AES-GCM step (plaintext, or a
\* decryption error, which is not IntegrityError) is that of a payload whose
\* signature verified.
C23_VerifyBeforeDecrypt ==
    [][\A c \in Calls :
          (calls[c].op = "decrypt" /\ decryptOpen(c)) =>
             LET verified == Verifies(Val(calls[c].arg), Val(calls[c].meta)) IN
             /\ ~verified => last' = Outcome("decrypt", "IntegrityError", "", Null)
             /\ last'.result \in {"resolved", "DecryptionError", "TypeError"} => verified
             /\ verified => last'.result # "IntegrityError"
      ]_vars

\* C23 witness: decrypt has just failed with IntegrityError on a payload whose
\* ciphertext was altered under an untouched signature: AES-GCM would have
\* rejected it as well, and was not asked.
C23_Witness ==
    /\ last.op = "decrypt" /\ last.result = "IntegrityError"
    /\ held # Null
    /\ ~decode(parse(Val(held).stored).ciphertext).intact
    /\ decode(parse(Val(held).stored).signature) =
           decode(parse(Val(held).payload).signature)
    /\ Authenticated
    /\ ~AesGcmOpens(Val(dataEncryptionKey), decode(parse(Val(held).stored).iv),
                    decode(parse(Val(held).stored).ciphertext))

\* C24: when addDocuments(files) with two files ends, resolved or rejected,
\* either both records are in the files store or neither is (the store holds
\* no file before the first addDocuments, and nothing removes one).
C24_AddDocumentsAllOrNone ==
    [][\A c \in Calls :
          (calls[c].op = "addDocuments" /\ calls'[c] = Idle) =>
             \/ \A n \in FileNames : files'[n] # Null
             \/ \A n \in FileNames : files'[n] = Null
      ]_vars

keyEncryptionKey(password, metadata) ==
    deriveKey(password, decode(metadata.salt), {"decrypt"})

\* C26: the data encryption key a login assigns is not the key-wrapping key the
\* same login derived from the same password and salt: their key material
\* differs.
C26_DistinctLogicalKeys ==
    [][\A c \in Calls :
          LoginDerive(c) =>
             Val(dataEncryptionKey') #
                 keyEncryptionKey(calls[c].password, Val(calls[c].meta))
      ]_vars

\* C27: when a setup call resolves, the AuthMetadata is stored and both session
\* keys are set, so that an encrypt called next passes its check.
C27_SetupLeavesSessionActive ==
    [][\A c \in Calls :
          (/\ calls[c].op = "setup"
           /\ calls'[c] = Idle
           /\ last'.op = "setup" /\ last'.result = "resolved")
          => (authMetadata' # Null /\ Authenticated')
      ]_vars

\* C28: when a login call settles, whatever ran during its awaits (logout,
\* reset), either both session keys are null, or both are set and the
\* AuthMetadata is still stored.
C28_LoginSettlesConsistent ==
    [][\A c \in Calls :
          (calls[c].op = "login" /\ calls'[c] = Idle /\ last'.op = "login")
          => \/ SessionCleared'
             \/ (Authenticated' /\ authMetadata' # Null)
      ]_vars

WriteOps == {"addDocuments", "updateDocument", "saveChatHistory", "savePersonas",
             "saveVoicePreference"}

\* What the get matching a write returns for the key the write used.
MatchingGet(op, arg) ==
    CASE op = "addDocuments" ->
            {DecryptedFiles[i] : i \in 1..Len(DecryptedFiles)}
                \cap {f \in StoredFiles : f.name = Head(arg).name}
      [] op = "updateDocument" ->
            {DecryptedFiles[i] : i \in 1..Len(DecryptedFiles)}
                \cap {f \in StoredFiles : f.name = Val(arg).name}
      [] op = "saveChatHistory" -> DecryptedOrEmpty(chatHistory)
      [] op = "savePersonas" -> DecryptedOrEmpty(settings[PERSONAS_KEY])
      [] op = "saveVoicePreference" -> DecryptedOrNull(settings[VOICE_PREF_KEY])

\* What that get returns when it reads the value the write was given.
Written(op, arg) ==
    CASE op = "addDocuments" -> {Head(arg)}
      [] op = "updateDocument" -> {Val(arg)}
      [] op = "saveVoicePreference" -> arg
      [] OTHER -> Val(arg)

\* C29: a store write that ends in an active session has issued its put while
\* its transaction was active, so it resolves (it does not fail on an inactive
\* transaction), and the matching get then returns the value just written.
C29_ReadYourWrites ==
    [][\A c \in Calls :
          (/\ calls[c].op \in WriteOps
           /\ calls'[c] = Idle
           /\ last'.op = calls[c].op
           /\ Authenticated)
          => (/\ last'.result = "resolved"
              /\ \A op \in {calls[c].op}, arg \in {calls[c].arg} :
                    MatchingGet(op, arg)' = Written(op, arg))
      ]_vars

====
